---------------------------- MODULE Spec2Model ----------------------------
(***************************************************************************)
(* Model of the Rego/OPA admission controllers and of the resource         *)
(* reflector that mirrors cluster resources into the policy service.       *)
(*                                                                         *)
(* The specifications of the module share its variables:                   *)
(*   Spec           the admission controllers (Admit of the "override",    *)
(*                  "single", "opa" and "federation" controllers).         *)
(*   SpecReflector  reflector.Start with the sync loop of controller.start *)
(*                  consuming its Rx channel, for one resource type.       *)
(*   SpecReliable   the same when no list, watch or patch call fails.      *)
(*   SpecStart      controller.start with the goroutines it launches and   *)
(*                  waits for, the remote collections being unchanged.     *)
(*   SpecRestart    one reflector and its sync loop kept running (weak     *)
(*                  fairness), for the restarts of the loop of Start.      *)
(*   SpecBarrier    controller.start with its goroutines kept running, for *)
(*                  the return of wg.Wait().                               *)
(***************************************************************************)
EXTENDS Integers, Sequences, FiniteSets, TLC

(***************************************************************************)
(* Data of the admission controllers.                                      *)
(***************************************************************************)

\* The concurrent Admit calls.
Requests == {1, 2}

\* Lock owner value of a free sync.Mutex.
NoOne == 0

\* The four controller variants of the repository.
Controllers == {"override", "single", "opa", "federation"}

\* Acting identities (user.Info.GetName()).
opaName == "opa"
Users == {opaName, "alice"}

\* Request payloads (kind, name, namespace, ..., as one opaque snapshot).
Payloads == {"p1", "p2"}

\* Document paths of the configuration.
admitDoc == "/admit"
overrideDoc == "/override"
annotationDocumentPath == "/io/k8s/federation/annotations"

\* Annotation keys and the string values an object may already carry.
Keys == {"k1", "k2"}
StrVals == {"a", "1"}

\* All maps from a subset of Keys to V (a Go map[string]V).
MapsTo(V) == UNION {[D -> V] : D \in SUBSET Keys}

EmptyMap == [k \in {} |-> "a"]

\* JSON values the policy service can put in an annotation document entry.
JStr(s) == [t |-> "str", s |-> s, n |-> 0]
JNum(n) == [t |-> "num", s |-> "", n |-> n]
JVals == {JStr("a"), JStr("1"), JNum(1)}

\* The decoded "result" of a data response: a mapping, null or another value.
ResultMap(m) == [t |-> "map", m |-> m]
ResultNull == [t |-> "null", m |-> EmptyMap]
ResultOther == [t |-> "other", m |-> EmptyMap]
Results == {ResultMap(m) : m \in MapsTo(JVals)} \cup {ResultNull, ResultOther}

\* The proposed object (a.GetObject()): absent, or a struct that may or may
\* not have a metadata/annotations field, whose map may be nil.
NilObject == [present |-> FALSE, hasField |-> FALSE, isNil |-> TRUE, ann |-> EmptyMap]
Object(hasField, isNil, ann) ==
    [present |-> TRUE, hasField |-> hasField, isNil |-> isNil, ann |-> ann]
Objects ==
    {NilObject, Object(FALSE, TRUE, EmptyMap), Object(TRUE, TRUE, EmptyMap)}
        \cup {Object(TRUE, FALSE, m) : m \in MapsTo(StrVals)}

\* Values of the error interface returned by Query/Do and by Admit.
NoErr == [k |-> "nil", cause |-> ""]
undefined == [k |-> "undefined", cause |-> ""]
QueryError(msg) == [k |-> "error", cause |-> msg]
NewForbidden(err) == [k |-> "forbidden", cause |-> err.k \o ":" \o err.cause]
Panic == [k |-> "panic", cause |-> ""]
Pending == [k |-> "pending", cause |-> ""]

IsUndefined(err) == err.k = "undefined"

\* HTTP responses of the policy service.
Statuses == {200, 404, 500}
Bodies == {"undefinedMarker", "plainMap", "scalar", "garbage"}
Responses == [conn : BOOLEAN, status : Statuses, body : Bodies, json : BOOLEAN]


(***************************************************************************)
(* The policy client.                                                      *)
(***************************************************************************)

\* Query taking every 404 for undefined, whatever the body holds.
QueryAny404Undefined(marshalOK, resp) ==
    IF ~marshalOK THEN QueryError("marshal")
    ELSE IF ~resp.conn THEN QueryError("conn")
    ELSE IF resp.body = "garbage" THEN QueryError("decode")
    ELSE IF resp.status = 200 THEN NoErr
    ELSE IF resp.status = 404 THEN undefined
    ELSE QueryError("bad response")

\* httpClient.Query (GET variant): the error it returns; NoErr is a result.
\* The body is decoded before the status is looked at.
Query(marshalOK, resp) ==
    IF ~marshalOK THEN QueryError("marshal")
    ELSE IF ~resp.conn THEN QueryError("conn")
    ELSE IF resp.body = "garbage" THEN QueryError("decode")
    ELSE IF resp.status = 200 THEN NoErr
    ELSE IF resp.status = 404 /\ resp.body = "undefinedMarker" THEN undefined
    ELSE QueryError("bad response")

\* Whether json Decode of the body into a struct (dataResponseV1,
\* errorResponseV1) succeeds: a JSON object does, a scalar does not.
DecodesToStruct(body) == body \in {"undefinedMarker", "plainMap"}

\* request.Do / Request.Do (POST variant): [result, err]. checks is TRUE for
\* the federation Request, which refuses an empty path or a nil input first.
Do(checks, path, inputNil, resp, result) ==
    IF checks /\ path = "" THEN [result |-> ResultNull, err |-> QueryError("not implemented")]
    ELSE IF checks /\ inputNil THEN [result |-> ResultNull, err |-> QueryError("not implemented")]
    ELSE IF ~resp.conn THEN [result |-> ResultNull, err |-> QueryError("conn")]
    ELSE IF resp.status = 404 THEN [result |-> ResultNull, err |-> undefined]
    ELSE IF resp.status = 200 THEN
        IF ~DecodesToStruct(resp.body)
        THEN [result |-> ResultNull, err |-> QueryError("decode")]
        ELSE [result |-> result, err |-> NoErr]
    ELSE IF resp.json THEN
        IF ~DecodesToStruct(resp.body)
        THEN [result |-> ResultNull, err |-> QueryError("decode")]
        ELSE [result |-> ResultNull, err |-> QueryError("code")]
    ELSE [result |-> ResultNull, err |-> QueryError("bad status code")]

(***************************************************************************)
(* Annotations.                                                            *)
(***************************************************************************)

\* json.Marshal of a decoded JSON value.
jsonMarshal(v) == IF v.t = "num" THEN ToString(v.n) ELSE "\"" \o v.s \o "\""

\* decodeAnnotations: [ann, err]; a result that is no mapping is an error, an
\* empty mapping gives (nil, nil), string values are kept and every other
\* value is JSON serialized.
decodeAnnotations(body) ==
    IF body.t # "map" THEN [ann |-> EmptyMap, err |-> QueryError("unexpected result")]
    ELSE IF DOMAIN body.m = {} THEN [ann |-> EmptyMap, err |-> NoErr]
    ELSE [ann |-> [k \in DOMAIN body.m |->
                      IF body.m[k].t = "str" THEN body.m[k].s ELSE jsonMarshal(body.m[k])],
          err |-> NoErr]

\* getAnnotationsField finding a field in every object.
getAnnotationsFieldAlways(obj) == TRUE

\* getAnnotationsField: whether the object has a metadata/annotations field.
getAnnotationsField(obj) == obj.hasField

\* mergeAnnotations with the !ok test dropped: every key of origMap is
\* copied into annotations.
mergeAnnotationsExistingWins(origMap, annotations) ==
    [k \in DOMAIN annotations \cup DOMAIN origMap |->
        IF k \in DOMAIN origMap THEN origMap[k] ELSE annotations[k]]

\* The merge loop of applyAnnotations: every key of origMap that annotations
\* lacks is copied into annotations.
mergeAnnotations(origMap, annotations) ==
    [k \in DOMAIN annotations \cup DOMAIN origMap |->
        IF k \in DOMAIN annotations THEN annotations[k] ELSE origMap[k]]

\* applyAnnotations: the object after the call. A nil map ranges as empty.
applyAnnotations(obj, annotations) ==
    IF ~getAnnotationsField(obj) THEN obj
    ELSE [obj EXCEPT !.isNil = FALSE,
                     !.ann = mergeAnnotations(IF obj.isNil THEN EmptyMap ELSE obj.ann,
                                              annotations)]

\* Ignored never matching.
IgnoredNever(names, user) == FALSE

\* config.Ignored (opa) and the opaName test (federation).
Ignored(names, user) == user \in names

(***************************************************************************)
(* State.                                                                  *)
(***************************************************************************)

VARIABLES
    controller,       \* which controller variant handles the requests
    ignoreUserNames,  \* config.IgnoreUserNames
    initialized,      \* controller.initialized
    initLock,         \* controller.initLock: the request holding it, or NoOne
    starts,           \* how many times c.start() has been called
    pc,               \* where each Admit call stands
    attrs,            \* admission.Attributes of each call
    object,           \* the proposed object of each call, as it is now
    object0,          \* the proposed object of each call, as it was passed in
    queries,          \* the policy queries each call has issued, in order
    ret,              \* what each Admit call returned
    response          \* the HTTP exchange of the last policy query, and its outcome

admitVars == <<controller, ignoreUserNames, initialized, initLock, starts, pc, attrs,
               object, object0, queries, ret, response>>

\* State of the reflectors and sync loops, per resource type.
VARIABLES
    running,     \* the resource types whose goroutines have been started
    mayFail,     \* whether calls to the API server and the policy service can fail
    remote,      \* the API server: version of each object (0: absent), per type
    rv,          \* the API server: resourceVersion of each collection
    stream,      \* the API server: the change notifications of each collection
    rpc,         \* reflector.Start: where the loop stands
    iter,        \* reflector.Start: the number of the loop iteration
    items,       \* reflector.Start: items of the last list()
    version,     \* reflector.Start: version of the last list()
    wpos,        \* reflector.watch: notifications decoded so far come up to here
    wcursor,     \* reflector.watch: the resourceVersion of the open watch request
    listed,      \* reflector.Start: what list() returned in this loop iteration
    sending,     \* the message the reflector is sending on Rx
    spc,         \* sync loop: where it stands
    cur,         \* sync loop: the message being handled
    idx,         \* sync loop: next item of msg.Items
    loopInit,    \* sync loop: its local initialized flag
    wg,          \* start(): the WaitGroup counter
    mirror,      \* the mirror store: collection created, and entries by uid
    patches,     \* sync loop: the Patch calls issued for the message being handled
    base,        \* sync loop, while it handles a Resync with the items of the Resync
                 \* it handled just before: the mirror store of the type when the
                 \* second was received
    newest,      \* per key, the highest object version a patch that succeeded carried
    delivered,   \* the messages received from Rx in this iteration of Start
    watches      \* reflector.Start: the watch() calls of this loop iteration

reflVars == <<running, mayFail, remote, rv, stream, rpc, iter, items, version, wpos,
              wcursor, listed, sending, spc, cur, idx, loopInit, wg, mirror, patches,
              base, newest, delivered, watches>>

vars == <<admitVars, reflVars>>

\* The HTTP exchange of a policy query as the client saw it: the method,
\* the response (conn FALSE: none came) and the error the client returned.
NoResponse == [method |-> "", resp |-> [conn |-> FALSE, status |-> 200, body |-> "garbage", json |-> FALSE],
               err |-> Pending]
Exchange(method, resp, err) == [method |-> method, resp |-> resp, err |-> err]

Attrs == [payload : Payloads, user : Users, marshalOK : BOOLEAN, encodeOK : BOOLEAN]
NoAttrs == [payload |-> "p1", user |-> "alice", marshalOK |-> TRUE, encodeOK |-> TRUE]

InitAdmit ==
    /\ controller \in Controllers
    /\ ignoreUserNames \in SUBSET Users
    /\ (controller # "opa" => ignoreUserNames = {})
    /\ initialized = FALSE
    /\ initLock = NoOne
    /\ starts = 0
    /\ pc = [q \in Requests |-> "idle"]
    /\ attrs = [q \in Requests |-> NoAttrs]
    /\ object = [q \in Requests |-> NilObject]
    /\ object0 = [q \in Requests |-> NilObject]
    /\ queries = [q \in Requests |-> <<>>]
    /\ ret = [q \in Requests |-> Pending]
    /\ response = NoResponse

\* A query as recorded: the document, the payload sent and the outcome
\* (the GET variant's result value is never looked at: ResultOther).
Issued(doc, payload, res) ==
    [doc |-> doc, payload |-> payload, err |-> res.err, result |-> res.result]

\* Admit returns err; the deferred Unlock runs if this call took the lock.
Return(q, err) ==
    /\ ret' = [ret EXCEPT ![q] = err]
    /\ pc' = [pc EXCEPT ![q] = "done"]
    /\ initLock' = IF initLock = q THEN NoOne ELSE initLock

\* The calls modelled: concurrent ones for the override controller, whose
\* calls share initialized and initLock; one for the others, whose calls
\* share nothing.
Callers == IF controller = "override" THEN Requests ELSE {1}

\* The attributes a call can carry. Mode A only forwards the request as
\* the payload; Mode B looks at the identity and at the proposed object.
CallInputs ==
    IF controller \in {"override", "single"}
    THEN {[a |-> [NoAttrs EXCEPT !.payload = p, !.marshalOK = m], o |-> NilObject] :
             p \in Payloads, m \in BOOLEAN}
    ELSE {[a |-> [NoAttrs EXCEPT !.user = u, !.encodeOK = e], o |-> o] :
             u \in Users, e \in BOOLEAN, o \in Objects}

\* The hosting framework calls Admit with some attributes.
Call(q) ==
    /\ pc[q] = "idle"
    /\ q \in Callers
    /\ \E in \in CallInputs :
        /\ attrs' = [attrs EXCEPT ![q] = in.a]
        /\ object' = [object EXCEPT ![q] = in.o]
        /\ object0' = [object0 EXCEPT ![q] = in.o]
    /\ pc' = [pc EXCEPT ![q] = "entry"]
    /\ UNCHANGED <<controller, ignoreUserNames, response, starts, initialized, initLock, queries, ret>>
    /\ UNCHANGED reflVars

(***************************************************************************)
(* controller.Admit, Mode A: the "override" controller (admit + override,  *)
(* lazily started reflectors) and the "single" controller (admit only).    *)
(***************************************************************************)

\* afterAdmit with the Undefined test dropped: Admit goes on to the
\* override query whenever the error is Undefined.
afterAdmitUndefinedGoesOn(err) ==
    IF err # NoErr /\ ~IsUndefined(err)
    THEN [return |-> TRUE, err |-> err]
    ELSE [return |-> FALSE, err |-> NoErr]

\* afterAdmit wrapping every error in a forbidden error, as Mode B does.
afterAdmitForbidsAll(err) ==
    IF err # NoErr
    THEN [return |-> TRUE, err |-> NewForbidden(err)]
    ELSE [return |-> FALSE, err |-> NoErr]

\* What Admit does with the outcome of the admit query: return (and what),
\* or go on.
afterAdmit(err) ==
    IF err # NoErr
    THEN IF IsUndefined(err)
         THEN [return |-> TRUE, err |-> NewForbidden(err)]
         ELSE [return |-> TRUE, err |-> err]
    ELSE [return |-> FALSE, err |-> NoErr]

\* afterOverride treating Undefined as the admit query does.
afterOverrideUndefinedDenies(err) ==
    IF err # NoErr
    THEN IF IsUndefined(err) THEN NewForbidden(err) ELSE err
    ELSE NoErr

\* What Admit returns after the override query.
afterOverride(err) ==
    IF err # NoErr
    THEN IF IsUndefined(err) THEN NoErr ELSE err
    ELSE NoErr

\* if !c.initialized { c.initLock.Lock() ... }: the first test, a read
\* outside the lock that races with the write in another call, so that
\* it may still see false after the write.
CheckInitialized(q) ==
    /\ pc[q] = "entry"
    /\ controller = "override"
    /\ \E seen \in {initialized, FALSE} :
         pc' = [pc EXCEPT ![q] = IF seen THEN "admit" ELSE "lock"]
    /\ UNCHANGED <<controller, ignoreUserNames, response, starts, initialized, initLock, attrs,
                   object, object0, queries, ret>>
    /\ UNCHANGED reflVars

\* Lock without the second test: the call that gets the lock runs start().
LockNoRecheck(q) ==
    /\ pc[q] = "lock"
    /\ initLock = NoOne
    /\ initLock' = q
    /\ pc' = [pc EXCEPT ![q] = "start"]
    /\ UNCHANGED <<controller, ignoreUserNames, response, starts, initialized, attrs,
                   object, object0, queries, ret>>
    /\ UNCHANGED reflVars

\* c.initLock.Lock(), then the second test under the lock.
Lock(q) ==
    /\ pc[q] = "lock"
    /\ initLock = NoOne
    /\ initLock' = q
    /\ pc' = [pc EXCEPT ![q] = IF initialized THEN "admit" ELSE "start"]
    /\ UNCHANGED <<controller, ignoreUserNames, response, starts, initialized, attrs,
                   object, object0, queries, ret>>
    /\ UNCHANGED reflVars

\* c.start() from its call to its return, as one step (SpecStart follows
\* it inside); then c.initialized = true.
Started(q) ==
    /\ pc[q] = "start"
    /\ starts' = starts + 1
    /\ initialized' = TRUE
    /\ pc' = [pc EXCEPT ![q] = "admit"]
    /\ UNCHANGED <<controller, ignoreUserNames, response, initLock, attrs,
                   object, object0, queries, ret>>
    /\ UNCHANGED reflVars

\* json.MarshalIndent(req) panics on an error (override controller only),
\* then client.Query(c.admitDoc, {"request": req}).
AdmitQuery(q) ==
    /\ pc[q] = "admit"
    /\ IF controller = "override" /\ ~attrs[q].marshalOK
       THEN /\ Return(q, Panic)
            /\ UNCHANGED <<queries, response>>
       ELSE \E resp \in Responses :
              LET err == Query(attrs[q].marshalOK, resp)
                  next == afterAdmit(err)
              IN /\ queries' = [queries EXCEPT ![q] =
                                   Append(@, Issued(admitDoc, attrs[q].payload,
                                                    [err |-> err, result |-> ResultOther]))]
                 /\ response' = IF attrs[q].marshalOK THEN Exchange("GET", resp, err)
                                 ELSE response
                 /\ IF next.return \/ controller = "single"
                    THEN Return(q, next.err)
                    ELSE /\ pc' = [pc EXCEPT ![q] = "override"]
                         /\ UNCHANGED <<ret, initLock>>
    /\ UNCHANGED <<controller, ignoreUserNames, starts, initialized, attrs, object, object0>>
    /\ UNCHANGED reflVars

\* client.Query(c.overrideDoc, {"request": req}) and the return.
OverrideQuery(q) ==
    /\ pc[q] = "override"
    /\ \E resp \in Responses :
         LET err == Query(attrs[q].marshalOK, resp)
         IN /\ queries' = [queries EXCEPT ![q] =
                              Append(@, Issued(overrideDoc, attrs[q].payload,
                                               [err |-> err, result |-> ResultOther]))]
            /\ response' = Exchange("GET", resp, err)
            /\ Return(q, afterOverride(err))
    /\ UNCHANGED <<controller, ignoreUserNames, starts, initialized, attrs, object, object0>>
    /\ UNCHANGED reflVars

\* The "single" controller goes straight to the admit query.
SingleEntry(q) ==
    /\ pc[q] = "entry"
    /\ controller = "single"
    /\ pc' = [pc EXCEPT ![q] = "admit"]
    /\ UNCHANGED <<controller, ignoreUserNames, response, starts, initialized, initLock, attrs,
                   object, object0, queries, ret>>
    /\ UNCHANGED reflVars

(***************************************************************************)
(* controller.Admit, Mode B: the "opa" and "federation" controllers        *)
(* (annotations query, merge into the proposed object).                    *)
(***************************************************************************)

\* The identities the controller skips.
ignoredNames == IF controller = "federation" THEN {opaName} ELSE ignoreUserNames

\* afterAnnotations logging a query error instead of returning it.
afterAnnotationsSwallowsError(obj, res) ==
    IF res.err # NoErr
    THEN [err |-> NoErr, obj |-> obj]
    ELSE LET dec == decodeAnnotations(res.result)
         IN IF dec.err # NoErr THEN [err |-> NewForbidden(dec.err), obj |-> obj]
            ELSE IF Cardinality(DOMAIN dec.ann) = 0 THEN [err |-> NoErr, obj |-> obj]
            ELSE [err |-> NoErr, obj |-> applyAnnotations(obj, dec.ann)]

\* afterAnnotations failing closed on Undefined too.
afterAnnotationsUndefinedDenies(obj, res) ==
    IF res.err # NoErr
    THEN [err |-> NewForbidden(res.err), obj |-> obj]
    ELSE LET dec == decodeAnnotations(res.result)
         IN IF dec.err # NoErr THEN [err |-> NewForbidden(dec.err), obj |-> obj]
            ELSE IF Cardinality(DOMAIN dec.ann) = 0 THEN [err |-> NoErr, obj |-> obj]
            ELSE [err |-> NoErr, obj |-> applyAnnotations(obj, dec.ann)]

\* afterAnnotations without the len(annotations) == 0 test.
afterAnnotationsAppliesEmpty(obj, res) ==
    IF res.err # NoErr
    THEN IF IsUndefined(res.err)
         THEN [err |-> NoErr, obj |-> obj]
         ELSE [err |-> NewForbidden(res.err), obj |-> obj]
    ELSE LET dec == decodeAnnotations(res.result)
         IN IF dec.err # NoErr THEN [err |-> NewForbidden(dec.err), obj |-> obj]
            ELSE [err |-> NoErr, obj |-> applyAnnotations(obj, dec.ann)]

\* What Admit does with the outcome of Do and of decodeAnnotations:
\* the error returned and the object left behind.
afterAnnotations(obj, res) ==
    IF res.err # NoErr
    THEN IF IsUndefined(res.err)
         THEN [err |-> NoErr, obj |-> obj]
         ELSE [err |-> NewForbidden(res.err), obj |-> obj]
    ELSE LET dec == decodeAnnotations(res.result)
         IN IF dec.err # NoErr THEN [err |-> NewForbidden(dec.err), obj |-> obj]
            ELSE IF Cardinality(DOMAIN dec.ann) = 0 THEN [err |-> NoErr, obj |-> obj]
            ELSE [err |-> NoErr, obj |-> applyAnnotations(obj, dec.ann)]

\* The ignore test, the nil-object test and convertObject/encodeObject.
AnnotateEntry(q) ==
    /\ pc[q] = "entry"
    /\ controller \in {"opa", "federation"}
    /\ IF Ignored(ignoredNames, attrs[q].user) THEN Return(q, NoErr)
       ELSE IF ~object[q].present THEN Return(q, NoErr)
       ELSE IF ~attrs[q].encodeOK THEN Return(q, NewForbidden(QueryError("encode")))
       ELSE /\ pc' = [pc EXCEPT ![q] = "annotations"]
            /\ UNCHANGED <<ret, initLock>>
    /\ UNCHANGED <<controller, ignoreUserNames, response, starts, initialized, attrs,
                   object, object0, queries>>
    /\ UNCHANGED reflVars

\* The annotations query, decodeAnnotations and applyAnnotations.
AnnotationsQuery(q) ==
    /\ pc[q] = "annotations"
    /\ \E resp \in Responses, result \in Results :
         LET res == Do(controller = "federation", annotationDocumentPath, FALSE, resp, result)
             out == afterAnnotations(object[q], res)
         IN /\ queries' = [queries EXCEPT ![q] =
                              Append(@, Issued(annotationDocumentPath, attrs[q].payload, res))]
            /\ response' = Exchange("POST", resp, res.err)
            /\ object' = [object EXCEPT ![q] = out.obj]
            /\ Return(q, out.err)
    /\ UNCHANGED <<controller, ignoreUserNames, starts, initialized, attrs, object0>>
    /\ UNCHANGED reflVars

Admit(q) ==
    \/ Call(q)
    \/ CheckInitialized(q)
    \/ Lock(q)
    \/ Started(q)
    \/ SingleEntry(q)
    \/ AdmitQuery(q)
    \/ OverrideQuery(q)
    \/ AnnotateEntry(q)
    \/ AnnotationsQuery(q)

NextAdmit == \E q \in Requests : Admit(q)

(***************************************************************************)
(* The reflector (list, Resync, watch, Sync) and the sync loop of          *)
(* controller.start that replays its events as patches.                    *)
(***************************************************************************)

\* resourceTypes of controller.start.
ResourceTypes == {"pods", "nodes", "services", "replicationcontrollers"}

\* The resource types whose reflector is followed: start() runs the same
\* code for each element of resourceTypes, with the type only in the paths.
ReflectedTypes == {"pods", "nodes"}

\* The resource type of the reflector that is followed alone.
OneType == "pods"

\* Bounds: List calls per reflector, and changes of a remote collection.
MaxIter == 2
MaxRV == 2

\* The objects of a remote collection, by name. "z" is an object whose
\* metadata.uid cannot be extracted.
Names == {"x", "y", "z"}
NameOrder == <<"x", "y", "z">>

\* A resource object as decoded from JSON: whether it has a metadata map,
\* metadata.uid when that is a string ("" otherwise), and its version.
Obj(name, ver) ==
    [name |-> name, metadata |-> name # "z",
     uid |-> IF name = "x" THEN "u1" ELSE IF name = "y" THEN "u2" ELSE "",
     ver |-> ver]
NoObj == [name |-> "", metadata |-> FALSE, uid |-> "", ver |-> 0]

\* Change kinds of a watch notification. syncObject.Type is whatever
\* string the notification carries: the API server also sends ERROR, and
\* "OTHER" stands for any further string.
added == "ADDED"
modified == "MODIFIED"
deleted == "DELETED"
EventTypes == {added, modified, deleted, "ERROR", "OTHER"}

\* Patch operations.
add == "add"
remove == "remove"
replace == "replace"

\* controller.getUID
getUID(obj) == IF obj.metadata THEN obj.uid ELSE ""

\* Messages on reflector.Rx: *resyncObjects, *syncObject, or an error.
\* iter is the loop iteration of Start that sent the message.
ResyncMsg(its, i) == [kind |-> "resync", items |-> its, type |-> "", object |-> NoObj, iter |-> i]
SyncMsg(type, obj, i) == [kind |-> "sync", items |-> <<>>, type |-> type, object |-> obj, iter |-> i]
ErrorMsg(i) == [kind |-> "error", items |-> <<>>, type |-> "", object |-> NoObj, iter |-> i]
NoMsg == [kind |-> "none", items |-> <<>>, type |-> "", object |-> NoObj, iter |-> 0]


(***************************************************************************)
(* The API server, as the reflector sees it.                               *)
(***************************************************************************)

\* The collection as a list response orders it.
Snapshot(t) ==
    LET ns == SelectSeq(NameOrder, LAMBDA n : remote[t][n] > 0)
    IN [i \in 1..Len(ns) |-> Obj(ns[i], remote[t][ns[i]])]

\* A notification of the change stream; it gets the next resourceVersion.
Notification(type, obj) == [type |-> type, object |-> obj]

\* An object of the collection is created, updated or deleted.
RemoteChange(t) ==
    /\ t \in running
    /\ rv[t] < MaxRV
    /\ \E n \in Names :
         \/ /\ remote[t][n] = 0
            /\ remote' = [remote EXCEPT ![t][n] = rv[t] + 1]
            /\ stream' = [stream EXCEPT ![t] = Append(@, Notification(added, Obj(n, rv[t] + 1)))]
         \/ /\ remote[t][n] > 0
            /\ remote' = [remote EXCEPT ![t][n] = rv[t] + 1]
            /\ stream' = [stream EXCEPT ![t] = Append(@, Notification(modified, Obj(n, rv[t] + 1)))]
         \/ /\ remote[t][n] > 0
            /\ remote' = [remote EXCEPT ![t][n] = 0]
            /\ stream' = [stream EXCEPT ![t] = Append(@, Notification(deleted, Obj(n, rv[t] + 1)))]
    /\ rv' = [rv EXCEPT ![t] = @ + 1]
    /\ UNCHANGED <<running, mayFail, watches, base, newest, rpc, iter, items, version, wpos, wcursor, listed, sending,
                   spc, cur, idx, loopInit, wg, mirror, patches, delivered>>
    /\ UNCHANGED admitVars

(***************************************************************************)
(* reflector.Start                                                         *)
(***************************************************************************)

\* Ways a list or watch request fails before any item or notification.
ListFailures == {"request", "status", "decode", "malformed"}
WatchFailures == {"request", "status"}

\* A call r.watch(version) of the loop: the cursor it was given and how it
\* has ended ("open": it has not returned, "EOF", or "error").
WatchCall(v, end) == [version |-> v, end |-> end]
Ended(ws, end) == [ws EXCEPT ![Len(ws)].end = end]

\* No list() call yet.
NotListed == [items |-> <<>>, version |-> 0, err |-> TRUE]

\* list giving the items of the list() call before it again, if any,
\* with the current version.
listReusesItems(t, fail) ==
    IF fail \in ListFailures
    THEN [items |-> <<>>, version |-> 0, err |-> TRUE]
    ELSE [items |-> IF items[t] # <<>> THEN items[t] ELSE Snapshot(t),
          version |-> rv[t], err |-> FALSE]

\* reflector.list: [items, version, err] for the response the server gives.
list(t, fail) ==
    IF fail \in ListFailures
    THEN [items |-> <<>>, version |-> 0, err |-> TRUE]
    ELSE [items |-> Snapshot(t), version |-> rv[t], err |-> FALSE]

\* afterList going straight to the watch after a successful list(),
\* sending no Resync.
afterListNoResync(res, i) ==
    IF res.err
    THEN [msg |-> ErrorMsg(i), rpc |-> "sendListErr"]
    ELSE [msg |-> NoMsg, rpc |-> "watch"]

\* What Start does with the result of list(): the message it sends on Rx
\* and where it goes on from.
afterList(res, i) ==
    IF res.err
    THEN [msg |-> ErrorMsg(i), rpc |-> "sendListErr"]
    ELSE [msg |-> ResyncMsg(res.items, i), rpc |-> "sendResync"]

\* afterSend leaving the loop of Start once the error of a watch was sent.
afterSendWatchErrorStops(at) ==
    CASE at = "sendListErr" -> "list"
      [] at = "sendResync" -> "watch"
      [] at = "sendSync" -> "watching"
      [] at = "sendSyncLast" -> "watchEnd"
      [] at = "sendWatchErr" -> "stopped"

\* Where Start goes on once its send on Rx has been received.
afterSend(at) ==
    CASE at = "sendListErr" -> "list"
      [] at = "sendResync" -> "watch"
      [] at = "sendSync" -> "watching"
      [] at = "sendSyncLast" -> "watchEnd"
      [] at = "sendWatchErr" -> "list"

\* items, version, err := r.list(), up to the send that follows.
List(t) ==
    /\ t \in running
    /\ rpc[t] = "list"
    /\ iter[t] < MaxIter
    /\ iter' = [iter EXCEPT ![t] = @ + 1]
    /\ \E fail \in (IF mayFail THEN ListFailures ELSE {}) \cup {"none"} :
         LET res == list(t, fail)
             next == afterList(res, iter[t] + 1)
         IN /\ items' = [items EXCEPT ![t] = res.items]
            /\ version' = [version EXCEPT ![t] = res.version]
            /\ listed' = [listed EXCEPT ![t] = res]
            /\ sending' = [sending EXCEPT ![t] = next.msg]
            /\ rpc' = [rpc EXCEPT ![t] = next.rpc]
    /\ delivered' = [delivered EXCEPT ![t] = <<>>]
    /\ watches' = [watches EXCEPT ![t] = <<>>]
    /\ UNCHANGED <<running, mayFail, base, newest, remote, rv, stream, wpos, wcursor,
                   spc, cur, idx, loopInit, wg, mirror, patches>>
    /\ UNCHANGED admitVars

\* Watch asking for the resourceVersion of the watch request before it,
\* if there was one, instead of the version it is given.
WatchStaleCursor(t) ==
    /\ t \in running
    /\ rpc[t] = "watch"
    /\ LET v == IF wcursor[t] # 0 THEN wcursor[t] ELSE version[t]
       IN \E fail \in (IF mayFail THEN WatchFailures ELSE {}) \cup {"none"} :
            IF fail \in WatchFailures
            THEN /\ sending' = [sending EXCEPT ![t] = ErrorMsg(iter[t])]
                 /\ rpc' = [rpc EXCEPT ![t] = "sendWatchErr"]
                 /\ watches' = [watches EXCEPT ![t] = Append(@, WatchCall(v, "error"))]
                 /\ UNCHANGED <<wpos, wcursor>>
            ELSE /\ wcursor' = [wcursor EXCEPT ![t] = v]
                 /\ wpos' = [wpos EXCEPT ![t] = v]
                 /\ rpc' = [rpc EXCEPT ![t] = "watching"]
                 /\ watches' = [watches EXCEPT ![t] = Append(@, WatchCall(v, "open"))]
                 /\ UNCHANGED sending
    /\ UNCHANGED <<running, mayFail, base, newest, remote, rv, stream, iter, items, version, listed,
                   spc, cur, idx, loopInit, wg, mirror, patches, delivered>>
    /\ UNCHANGED admitVars

\* reflector.watch up to the decode loop: the request carries version as
\* its resourceVersion; a failure is an error that is not io.EOF.
Watch(t) ==
    /\ t \in running
    /\ rpc[t] = "watch"
    /\ \E fail \in (IF mayFail THEN WatchFailures ELSE {}) \cup {"none"} :
         IF fail \in WatchFailures
         THEN /\ sending' = [sending EXCEPT ![t] = ErrorMsg(iter[t])]
              /\ rpc' = [rpc EXCEPT ![t] = "sendWatchErr"]
              /\ watches' = [watches EXCEPT ![t] = Append(@, WatchCall(version[t], "error"))]
              /\ UNCHANGED <<wpos, wcursor>>
         ELSE /\ wcursor' = [wcursor EXCEPT ![t] = version[t]]
              /\ wpos' = [wpos EXCEPT ![t] = version[t]]
              /\ rpc' = [rpc EXCEPT ![t] = "watching"]
              /\ watches' = [watches EXCEPT ![t] = Append(@, WatchCall(version[t], "open"))]
              /\ UNCHANGED sending
    /\ UNCHANGED <<running, mayFail, base, newest, remote, rv, stream, iter, items, version, listed,
                   spc, cur, idx, loopInit, wg, mirror, patches, delivered>>
    /\ UNCHANGED admitVars

\* decoder.Decode(v) gives the next notification, which is sent on Rx.
WatchNotification(t) ==
    /\ t \in running
    /\ rpc[t] = "watching"
    /\ wpos[t] < rv[t]
    /\ LET n == stream[t][wpos[t]]
       IN sending' = [sending EXCEPT ![t] = SyncMsg(n.type, n.object, iter[t])]
    /\ wpos' = [wpos EXCEPT ![t] = @ + 1]
    /\ rpc' = [rpc EXCEPT ![t] = "sendSync"]
    /\ UNCHANGED <<running, mayFail, watches, base, newest, remote, rv, stream, iter, items, version, wcursor, listed,
                   spc, cur, idx, loopInit, wg, mirror, patches, delivered>>
    /\ UNCHANGED admitVars

\* The server reports a failure of the watch as an ERROR notification,
\* whose object is a Status, and then ends the stream.
WatchErrorNotification(t) ==
    /\ t \in running
    /\ rpc[t] = "watching"
    /\ mayFail
    /\ sending' = [sending EXCEPT ![t] = SyncMsg("ERROR", NoObj, iter[t])]
    /\ rpc' = [rpc EXCEPT ![t] = "sendSyncLast"]
    /\ UNCHANGED <<running, mayFail, watches, base, newest, remote, rv, stream, iter, items, version, wpos, wcursor,
                   listed, spc, cur, idx, loopInit, wg, mirror, patches, delivered>>
    /\ UNCHANGED admitVars

\* decoder.Decode(v) gives a notification whose type is none of ADDED,
\* MODIFIED, DELETED, ERROR, about an object that has a uid; it is sent on
\* Rx like any other. It is the last one the stream gives.
WatchOtherNotification(t) ==
    /\ t \in running
    /\ rpc[t] = "watching"
    /\ mayFail
    /\ sending' = [sending EXCEPT ![t] = SyncMsg("OTHER", Obj("x", 1), iter[t])]
    /\ rpc' = [rpc EXCEPT ![t] = "sendSyncLast"]
    /\ UNCHANGED <<running, mayFail, watches, base, newest, remote, rv, stream, iter, items, version, wpos, wcursor,
                   listed, spc, cur, idx, loopInit, wg, mirror, patches, delivered>>
    /\ UNCHANGED admitVars

\* WatchEnds without the err != io.EOF test: the error is sent either way.
WatchEndsEofIsError(t) ==
    /\ t \in running
    /\ rpc[t] \in {"watching", "watchEnd"}
    /\ \E eof \in (IF mayFail THEN BOOLEAN ELSE {TRUE}) :
         /\ sending' = [sending EXCEPT ![t] = ErrorMsg(iter[t])]
         /\ rpc' = [rpc EXCEPT ![t] = "sendWatchErr"]
         /\ watches' = [watches EXCEPT ![t] = Ended(@, IF eof THEN "EOF" ELSE "error")]
    /\ UNCHANGED <<running, mayFail, base, newest, remote, rv, stream, iter, items, version, wpos, wcursor,
                   listed, spc, cur, idx, loopInit, wg, mirror, patches, delivered>>
    /\ UNCHANGED admitVars

\* decoder.Decode(v) fails: with io.EOF Start sends nothing, with any other
\* error it sends the error.
WatchEnds(t) ==
    /\ t \in running
    /\ rpc[t] \in {"watching", "watchEnd"}
    /\ \E eof \in (IF mayFail THEN BOOLEAN ELSE {TRUE}) :
         IF eof
         THEN /\ rpc' = [rpc EXCEPT ![t] = "list"]
              /\ watches' = [watches EXCEPT ![t] = Ended(@, "EOF")]
              /\ UNCHANGED sending
         ELSE /\ sending' = [sending EXCEPT ![t] = ErrorMsg(iter[t])]
              /\ rpc' = [rpc EXCEPT ![t] = "sendWatchErr"]
              /\ watches' = [watches EXCEPT ![t] = Ended(@, "error")]
    /\ UNCHANGED <<running, mayFail, base, newest, remote, rv, stream, iter, items, version, wpos, wcursor,
                   listed, spc, cur, idx, loopInit, wg, mirror, patches, delivered>>
    /\ UNCHANGED admitVars

(***************************************************************************)
(* The mirror store and httpClient.Patch.                                  *)
(***************************************************************************)

Uids == {"u1", "u2"}

\* "/"+resourceType and fmt.Sprintf("/%v/%v", resourceType, uid)
CollectionPath(t) == "/" \o t

\* ItemPath leaving the resource type out of the path.
ItemPathNoType(t, uid) == "/" \o uid

ItemPath(t, uid) == "/" \o t \o "/" \o uid

MirrorPaths ==
    {CollectionPath(t) : t \in ResourceTypes}
        \cup {ItemPath(t, u) : t \in ResourceTypes, u \in Uids}

\* The value of a collection created empty, and of a path with no document.
EmptyCollection == [NoObj EXCEPT !.name = "{}"]
Absent == NoObj

\* The keys of resource type t, and what the mirror store holds under them.
PathsOf(t) == {CollectionPath(t)} \cup {ItemPath(t, u) : u \in Uids}
MirrorOf(t) == [p \in PathsOf(t) |-> mirror[p]]

\* No such Resync is being handled.
NoBase(t) == [again |-> FALSE, store |-> [p \in PathsOf(t) |-> Absent]]

\* httpClient.Patch: the request, PATCH baseURL/data+path with the one
\* operation {"path": "/", "op": op[, "value": obj]}; obj is NoObj for nil.
Patch(op, path, obj) ==
    [op |-> op, path |-> path, hasValue |-> obj # NoObj, value |-> obj]

\* The mirror store after the policy service has applied a patch.
Applied(m, p) ==
    IF p.op \in {add, replace}
    THEN [q \in DOMAIN m |->
            IF q = p.path THEN p.value
            ELSE IF \E t \in ResourceTypes, u \in Uids :
                       p.path = CollectionPath(t) /\ q = ItemPath(t, u)
                 THEN Absent
                 ELSE m[q]]
    ELSE IF p.op = remove THEN [m EXCEPT ![p.path] = Absent]
    ELSE m

\* Whether a Patch call can return nil, an error.
PatchOutcomes == IF mayFail THEN BOOLEAN ELSE {TRUE}

\* client.Patch(...) is called; err == nil iff ok.
DoPatch(t, p, ok) ==
    /\ patches' = [patches EXCEPT ![t] = Append(@, [p EXCEPT !.path = p.path])]
    /\ mirror' = IF ok /\ p.path \in DOMAIN mirror THEN Applied(mirror, p) ELSE mirror
    /\ newest' = IF ok /\ p.path \in DOMAIN newest /\ p.value.ver > newest[p.path]
                 THEN [newest EXCEPT ![p.path] = p.value.ver]
                 ELSE newest

(***************************************************************************)
(* controller.start: the sync loop of one resource type.                   *)
(***************************************************************************)

\* syncPatch with obj = msg.Object set for every change kind.
syncPatchAlwaysValue(msg, path) ==
    CASE msg.type = added -> Patch(add, path, msg.object)
      [] msg.type = modified -> Patch(replace, path, msg.object)
      [] msg.type = deleted -> Patch(remove, path, msg.object)
      [] OTHER -> Patch("", path, msg.object)

\* The operation and value the syncObject case patches with.
syncPatch(msg, path) ==
    CASE msg.type = added -> Patch(add, path, msg.object)
      [] msg.type = modified -> Patch(replace, path, msg.object)
      [] msg.type = deleted -> Patch(remove, path, NoObj)
      [] OTHER -> Patch("", path, NoObj)

\* dispatch without the !initialized test: every Resync creates the
\* collection.
dispatchAlwaysCreates(msg, init) ==
    CASE msg.kind = "resync" -> "collection"
      [] msg.kind = "sync" -> "sync"
      [] OTHER -> "recv"

\* dispatch with the !initialized test inverted.
dispatchInverted(msg, init) ==
    CASE msg.kind = "resync" -> IF init THEN "collection" ELSE "items"
      [] msg.kind = "sync" -> "sync"
      [] OTHER -> "recv"

\* Where the loop goes on with a received message.
dispatch(msg, init) ==
    CASE msg.kind = "resync" -> IF init THEN "items" ELSE "collection"
      [] msg.kind = "sync" -> "sync"
      [] OTHER -> "recv"

\* for msg := range reflector.Rx: the unbuffered send of Start completes.
Receive(t) ==
    /\ t \in running
    /\ spc[t] = "recv"
    /\ sending[t] # NoMsg
    /\ cur' = [cur EXCEPT ![t] = sending[t]]
    /\ idx' = [idx EXCEPT ![t] = 1]
    /\ delivered' = [delivered EXCEPT ![t] = Append(@, sending[t])]
    /\ sending' = [sending EXCEPT ![t] = NoMsg]
    /\ rpc' = [rpc EXCEPT ![t] = afterSend(rpc[t])]
    /\ spc' = [spc EXCEPT ![t] = dispatch(sending[t], loopInit[t])]
    /\ patches' = [patches EXCEPT ![t] = <<>>]
    /\ base' = [base EXCEPT ![t] =
                   IF /\ sending[t].kind = "resync"
                      /\ cur[t].kind = "resync"
                      /\ cur[t].items = sending[t].items
                   THEN [again |-> TRUE, store |-> MirrorOf(t)]
                   ELSE NoBase(t)]
    /\ UNCHANGED <<running, mayFail, watches, newest, remote, rv, stream, iter, items, version, wpos, wcursor,
                   listed, loopInit, wg, mirror>>
    /\ UNCHANGED admitVars

\* First Resync: client.Patch(add, "/"+resourceType, {}); a failure is logged.
CreateCollection(t) ==
    /\ t \in running
    /\ spc[t] = "collection"
    /\ \E ok \in PatchOutcomes : DoPatch(t, Patch(add, CollectionPath(t), EmptyCollection), ok)
    /\ spc' = [spc EXCEPT ![t] = "items"]
    /\ UNCHANGED <<running, mayFail, watches, base, remote, rv, stream, rpc, iter, items, version, wpos, wcursor,
                   listed, sending, cur, idx, loopInit, wg, delivered>>
    /\ UNCHANGED admitVars

\* ReplayItem leaving the item loop (break for continue) when the Patch
\* call fails.
ReplayItemStopsOnError(t) ==
    /\ t \in running
    /\ spc[t] = "items"
    /\ idx[t] <= Len(cur[t].items)
    /\ LET obj == cur[t].items[idx[t]]
           uid == getUID(obj)
       IN IF uid = ""
          THEN /\ UNCHANGED <<mirror, patches, newest>>
               /\ idx' = [idx EXCEPT ![t] = @ + 1]
          ELSE \E ok \in PatchOutcomes :
                 /\ DoPatch(t, Patch(add, ItemPath(t, uid), obj), ok)
                 /\ idx' = [idx EXCEPT ![t] = IF ok THEN @ + 1 ELSE Len(cur[t].items) + 1]
    /\ UNCHANGED <<running, mayFail, watches, base, remote, rv, stream, rpc, iter, items, version,
                   wpos, wcursor, listed, sending, spc, cur, loopInit, wg, delivered>>
    /\ UNCHANGED admitVars

\* One turn of for _, obj := range msg.Items.
ReplayItem(t) ==
    /\ t \in running
    /\ spc[t] = "items"
    /\ idx[t] <= Len(cur[t].items)
    /\ LET obj == cur[t].items[idx[t]]
           uid == getUID(obj)
       IN IF uid = ""
          THEN UNCHANGED <<mirror, patches, newest>>
          ELSE \E ok \in PatchOutcomes : DoPatch(t, Patch(add, ItemPath(t, uid), obj), ok)
    /\ idx' = [idx EXCEPT ![t] = @ + 1]
    /\ UNCHANGED <<running, mayFail, watches, base, remote, rv, stream, rpc, iter, items, version, wpos, wcursor,
                   listed, sending, spc, cur, loopInit, wg, delivered>>
    /\ UNCHANGED admitVars

\* ResyncDone marking the type initialized only if the collection exists
\* in the mirror store.
ResyncDoneNeedsCollection(t) ==
    /\ t \in running
    /\ spc[t] = "items"
    /\ idx[t] > Len(cur[t].items)
    /\ LET done == mirror[CollectionPath(t)] # Absent
       IN /\ loopInit' = [loopInit EXCEPT ![t] = @ \/ done]
          /\ wg' = IF loopInit[t] \/ ~done THEN wg ELSE wg - 1
    /\ base' = [base EXCEPT ![t] = NoBase(t)]
    /\ spc' = [spc EXCEPT ![t] = "recv"]
    /\ UNCHANGED <<running, mayFail, watches, newest, remote, rv, stream, rpc, iter, items, version, wpos, wcursor,
                   listed, sending, cur, idx, mirror, patches, delivered>>
    /\ UNCHANGED admitVars

\* After the items: if !initialized { initialized = true; wg.Done() }.
ResyncDone(t) ==
    /\ t \in running
    /\ spc[t] = "items"
    /\ idx[t] > Len(cur[t].items)
    /\ loopInit' = [loopInit EXCEPT ![t] = TRUE]
    /\ base' = [base EXCEPT ![t] = NoBase(t)]
    /\ wg' = IF loopInit[t] THEN wg ELSE wg - 1
    /\ spc' = [spc EXCEPT ![t] = "recv"]
    /\ UNCHANGED <<running, mayFail, watches, newest, remote, rv, stream, rpc, iter, items, version, wpos, wcursor,
                   listed, sending, cur, idx, mirror, patches, delivered>>
    /\ UNCHANGED admitVars

\* case *syncObject.
SyncObject(t) ==
    /\ t \in running
    /\ spc[t] = "sync"
    /\ LET uid == getUID(cur[t].object)
       IN IF uid = ""
          THEN UNCHANGED <<mirror, patches, newest>>
          ELSE \E ok \in PatchOutcomes : DoPatch(t, syncPatch(cur[t], ItemPath(t, uid)), ok)
    /\ spc' = [spc EXCEPT ![t] = "recv"]
    /\ UNCHANGED <<running, mayFail, watches, base, remote, rv, stream, rpc, iter, items, version, wpos, wcursor,
                   listed, sending, cur, idx, loopInit, wg, delivered>>
    /\ UNCHANGED admitVars

Reflect(t) ==
    \/ RemoteChange(t)
    \/ List(t)
    \/ Watch(t)
    \/ WatchNotification(t)
    \/ WatchErrorNotification(t)
    \/ WatchOtherNotification(t)
    \/ WatchEnds(t)
    \/ Receive(t)
    \/ CreateCollection(t)
    \/ ReplayItem(t)
    \/ ResyncDone(t)
    \/ SyncObject(t)

(***************************************************************************)
(* Specifications.                                                         *)
(***************************************************************************)

\* The reflectors and sync loops before anything has run.
IdleReflectors ==
    /\ rv = [t \in ResourceTypes |-> 1]
    /\ stream = [t \in ResourceTypes |-> <<>>]
    /\ rpc = [t \in ResourceTypes |-> "list"]
    /\ iter = [t \in ResourceTypes |-> 0]
    /\ items = [t \in ResourceTypes |-> <<>>]
    /\ version = [t \in ResourceTypes |-> 0]
    /\ wpos = [t \in ResourceTypes |-> 0]
    /\ wcursor = [t \in ResourceTypes |-> 0]
    /\ listed = [t \in ResourceTypes |-> NotListed]
    /\ sending = [t \in ResourceTypes |-> NoMsg]
    /\ spc = [t \in ResourceTypes |-> "recv"]
    /\ cur = [t \in ResourceTypes |-> NoMsg]
    /\ idx = [t \in ResourceTypes |-> 1]
    /\ loopInit = [t \in ResourceTypes |-> FALSE]
    /\ mirror = [p \in MirrorPaths |-> Absent]
    /\ newest = [p \in MirrorPaths |-> 0]
    /\ base = [t \in ResourceTypes |-> NoBase(t)]
    /\ patches = [t \in ResourceTypes |-> <<>>]
    /\ delivered = [t \in ResourceTypes |-> <<>>]
    /\ watches = [t \in ResourceTypes |-> <<>>]

\* The admission controllers: no reflector is modelled.
Init ==
    /\ InitAdmit
    /\ running = {}
    /\ mayFail = TRUE
    /\ wg = 0
    /\ remote = [t \in ResourceTypes |-> [n \in Names |-> 0]]
    /\ IdleReflectors

Next == NextAdmit

Spec == Init /\ [][Next]_vars

\* One reflector with its sync loop, as start() launches it for a resource
\* type; the collection holds any objects when it starts. No Admit call
\* is modelled.
InitReflector ==
    /\ InitAdmit
    /\ controller = "override"
    /\ \E t \in {OneType} :
         /\ running = {t}
         /\ \E present \in SUBSET Names :
              remote = [u \in ResourceTypes |->
                           [n \in Names |-> IF u = t /\ n \in present THEN 1 ELSE 0]]
    /\ wg = 1
    /\ mayFail = TRUE
    /\ IdleReflectors

NextReflector == \E t \in ResourceTypes : Reflect(t)

SpecReflector == InitReflector /\ [][NextReflector]_vars

\* The sync loop of a resource type handling the message it has received.
Handle(t) ==
    \/ CreateCollection(t)
    \/ ReplayItem(t)
    \/ ResyncDone(t)
    \/ SyncObject(t)

\* The goroutines of a resource type keep running: every call to the API
\* server or to the policy service returns, and the sync loop goes on
\* receiving from Rx. The decode loop of a watch may block for ever.
Running(t) ==
    /\ WF_vars(List(t))
    /\ WF_vars(Watch(t))
    /\ WF_vars(Receive(t))
    /\ WF_vars(Handle(t))

\* One reflector with its sync loop, started on a collection that holds
\* one object, with its goroutines kept running.
InitRestart ==
    /\ InitAdmit
    /\ controller = "override"
    /\ running = {OneType}
    /\ remote = [u \in ResourceTypes |->
                    [n \in Names |-> IF u = OneType /\ n = "x" THEN 1 ELSE 0]]
    /\ wg = 1
    /\ mayFail = TRUE
    /\ IdleReflectors

SpecRestart == InitRestart /\ [][NextReflector]_vars /\ Running(OneType)

\* The reflector and sync loop of one resource type when no call to the
\* API server or to the policy service fails; a watch still ends when the
\* server closes the stream (io.EOF).
InitReliable ==
    /\ InitAdmit
    /\ controller = "override"
    /\ \E t \in {OneType} :
         /\ running = {t}
         /\ \E present \in SUBSET Names :
              remote = [u \in ResourceTypes |->
                           [n \in Names |-> IF u = t /\ n \in present THEN 1 ELSE 0]]
    /\ wg = 1
    /\ mayFail = FALSE
    /\ IdleReflectors

NextReliable ==
    \E t \in ResourceTypes :
        \/ RemoteChange(t)
        \/ List(t)
        \/ Watch(t)
        \/ WatchNotification(t)
        \/ WatchEnds(t)
        \/ Receive(t)
        \/ CreateCollection(t)
        \/ ReplayItem(t)
        \/ ResyncDone(t)
        \/ SyncObject(t)

SpecReliable == InitReliable /\ [][NextReliable]_vars

\* start() up to wg.Wait(): for each resource type wg.Add(1) and the
\* goroutine with its reflector and sync loop.
Launch(q) ==
    /\ pc[q] = "start"
    /\ starts' = starts + 1
    /\ running' = running \cup ReflectedTypes
    /\ wg' = wg + Cardinality(ReflectedTypes)
    /\ pc' = [pc EXCEPT ![q] = "wait"]
    /\ UNCHANGED <<controller, ignoreUserNames, response, initialized, initLock, attrs,
                   object, object0, queries, ret>>
    /\ UNCHANGED <<mayFail, watches, base, newest, remote, rv, stream, rpc, iter, items, version, wpos, wcursor,
                   listed, sending, spc, cur, idx, loopInit, mirror, patches, delivered>>

\* Wait returning whatever the counter of wg is.
WaitAnyTime(q) ==
    /\ pc[q] = "wait"
    /\ initialized' = TRUE
    /\ pc' = [pc EXCEPT ![q] = "admit"]
    /\ UNCHANGED <<controller, ignoreUserNames, response, starts, initLock, attrs,
                   object, object0, queries, ret>>
    /\ UNCHANGED reflVars

\* wg.Wait() returns, and with it start(); then c.initialized = true.
Wait(q) ==
    /\ pc[q] = "wait"
    /\ wg = 0
    /\ initialized' = TRUE
    /\ pc' = [pc EXCEPT ![q] = "admit"]
    /\ UNCHANGED <<controller, ignoreUserNames, response, starts, initLock, attrs,
                   object, object0, queries, ret>>
    /\ UNCHANGED reflVars

\* A goroutine of start() while the remote collections stay as they are.
ReflectUnchanged(t) ==
    \/ List(t)
    \/ Watch(t)
    \/ WatchErrorNotification(t)
    \/ WatchEnds(t)
    \/ Receive(t)
    \/ CreateCollection(t)
    \/ ReplayItem(t)
    \/ ResyncDone(t)
    \/ SyncObject(t)

\* The collections start() finds: one empty, the other with an object
\* that has a uid and one that has none.
StartRemotes ==
    {[t \in ResourceTypes |->
         [n \in Names |-> IF t = full /\ n \in {"x", "z"} THEN 1 ELSE 0]] :
       full \in ReflectedTypes}

\* The first Admit call of the override controller has been made; its
\* start() is followed with the goroutines it launches.
InitStart ==
    /\ controller = "override"
    /\ ignoreUserNames = {}
    /\ initialized = FALSE
    /\ initLock = NoOne
    /\ starts = 0
    /\ pc = [q \in Requests |-> IF q = 1 THEN "entry" ELSE "idle"]
    /\ attrs = [q \in Requests |-> NoAttrs]
    /\ object = [q \in Requests |-> NilObject]
    /\ object0 = [q \in Requests |-> NilObject]
    /\ queries = [q \in Requests |-> <<>>]
    /\ ret = [q \in Requests |-> Pending]
    /\ response = NoResponse
    /\ running = {}
    /\ mayFail = TRUE
    /\ wg = 0
    /\ remote \in StartRemotes
    /\ IdleReflectors

NextStart ==
    \/ \E q \in Requests : CheckInitialized(q) \/ Lock(q) \/ Launch(q) \/ Wait(q)
    \/ \E t \in ResourceTypes : ReflectUnchanged(t)

SpecStart == InitStart /\ [][NextStart]_vars

\* The first Admit call goes on whenever it can (its Lock() and wg.Wait()
\* return once they may), and the goroutines of start() keep running.
Proceeds(q) == WF_vars(CheckInitialized(q) \/ Lock(q) \/ Launch(q) \/ Wait(q))

\* A goroutine of start() while the server sends no notification on the
\* watch it holds open, and ends it or not.
ReflectQuiet(t) ==
    \/ List(t)
    \/ Watch(t)
    \/ WatchEnds(t)
    \/ Receive(t)
    \/ CreateCollection(t)
    \/ ReplayItem(t)
    \/ ResyncDone(t)

NextBarrier ==
    \/ \E q \in Requests : CheckInitialized(q) \/ Lock(q) \/ Launch(q) \/ Wait(q)
    \/ \E t \in ResourceTypes : ReflectQuiet(t)

\* start() finds its objects in pods and none in nodes.
InitBarrier == InitStart /\ remote["pods"]["x"] = 1

SpecBarrier ==
    InitBarrier /\ [][NextBarrier]_vars /\ Proceeds(1) /\ \A t \in ReflectedTypes : Running(t)

(***************************************************************************)
(* Properties.                                                             *)
(***************************************************************************)

ModeA == {"override", "single"}
ModeB == {"opa", "federation"}

\* The messages a reflector has put on Rx in its current loop iteration:
\* those received and the one its send is blocked on.
PutOnRx(t) ==
    IF sending[t] = NoMsg THEN delivered[t] ELSE Append(delivered[t], sending[t])

\* The places in PutOnRx(t) of the Resync events.
Resyncs(t) == {k \in 1..Len(PutOnRx(t)) : PutOnRx(t)[k].kind = "resync"}

\* C1: in every loop iteration of a reflector, a successful list() yielding
\* items L and cursor v puts exactly one Resync carrying L on Rx (a failed
\* one puts none); the watch of that iteration is opened with v; and every
\* Sync event of the iteration is put on Rx only after that Resync has been
\* received, so no Sync is delivered without the Resync of its iteration
\* before it.
C1_ResyncPrecedesSync ==
    \A t \in ResourceTypes :
        /\ \A k \in 1..Len(PutOnRx(t)) : PutOnRx(t)[k].iter = iter[t]
        /\ IF listed[t].err
           THEN Resyncs(t) = {}
           ELSE /\ Cardinality(Resyncs(t)) = 1
                /\ \A k \in Resyncs(t) : PutOnRx(t)[k].items = listed[t].items
        /\ \A k \in 1..Len(PutOnRx(t)) :
              PutOnRx(t)[k].kind = "sync" =>
                  /\ ~listed[t].err
                  /\ \E j \in 1..(k - 1) :
                        /\ j <= Len(delivered[t])
                        /\ delivered[t][j].kind = "resync"
        /\ rpc[t] \in {"watching", "sendSync", "sendSyncLast", "watchEnd"} =>
              /\ ~listed[t].err
              /\ wcursor[t] = listed[t].version

\* C1 witness: after a reconnect (second loop iteration) a Resync with
\* items was delivered and then a change of the collection as a Sync.
C1_Witness ==
    \E t \in ResourceTypes :
        /\ iter[t] = 2
        /\ Len(delivered[t]) = 2
        /\ delivered[t][1].kind = "resync"
        /\ Len(delivered[t][1].items) >= 1
        /\ delivered[t][1].items = listed[t].items
        /\ delivered[t][2].kind = "sync"
        /\ delivered[t][2].type \in {added, modified, deleted}

\* C2: in Mode A (the override controller, and the single controller, which
\* has no override query), the first query of a call is the admit query; if
\* it returned Undefined the call has returned a forbidden error and issued
\* no other query; an override query is only ever the second query, after
\* an admit query that returned a result, and carries the payload the admit
\* query carried.
C2_UndefinedAdmitDenies ==
    controller \in ModeA =>
        \A q \in Requests :
            /\ Len(queries[q]) <= 2
            /\ Len(queries[q]) >= 1 =>
                  /\ queries[q][1].doc = admitDoc
                  /\ queries[q][1].payload = attrs[q].payload
                  /\ IsUndefined(queries[q][1].err) =>
                        /\ pc[q] = "done"
                        /\ ret[q] = NewForbidden(undefined)
                        /\ Len(queries[q]) = 1
            /\ \A i \in 1..Len(queries[q]) :
                  queries[q][i].doc = overrideDoc =>
                      /\ i = 2
                      /\ queries[q][1].err = NoErr
                      /\ queries[q][2].payload = queries[q][1].payload

\* C2 witness: one call was denied on an Undefined admit query while another
\* call, with another payload, went on to its override query.
C2_Witness ==
    /\ controller = "override"
    /\ \E q, r \in Requests :
          /\ pc[q] = "done" /\ Len(queries[q]) = 1
          /\ IsUndefined(queries[q][1].err)
          /\ ret[q].k = "forbidden"
          /\ Len(queries[r]) = 2
          /\ queries[r][2].doc = overrideDoc
          /\ attrs[r].payload # attrs[q].payload

\* C3: in every controller, a call one of whose policy queries ended in a
\* query error has returned, and has returned an error (never nil).
C3_QueryErrorNeverAllows ==
    \A q \in Requests :
        \A i \in 1..Len(queries[q]) :
            queries[q][i].err.k = "error" =>
                /\ pc[q] = "done"
                /\ ret[q] # NoErr
                /\ ret[q].k \in {"error", "forbidden"}

\* C3 witness: a Mode B call whose annotations query could not be decoded
\* was denied.
C3_Witness ==
    /\ controller \in ModeB
    /\ \E q \in Requests :
          /\ Len(queries[q]) = 1
          /\ queries[q][1].err = QueryError("decode")
          /\ ret[q].k = "forbidden"

\* C4: in Mode A, a call one of whose queries ended in a query error
\* returned that very error, which is no forbidden error; and a call
\* returned a forbidden error only if its admit query was Undefined.
C4_HardErrorDistinct ==
    controller \in ModeA =>
        \A q \in Requests :
            /\ \A i \in 1..Len(queries[q]) :
                  queries[q][i].err.k = "error" =>
                      /\ i = Len(queries[q])
                      /\ ret[q] = queries[q][i].err
                      /\ ret[q].k # "forbidden"
            /\ ret[q].k = "forbidden" =>
                  /\ Len(queries[q]) = 1
                  /\ queries[q][1].doc = admitDoc
                  /\ IsUndefined(queries[q][1].err)

\* C4 witness: the admit query returned a result and the override query
\* failed with a bad response, which the call returned.
C4_Witness ==
    /\ controller = "override"
    /\ \E q \in Requests :
          /\ Len(queries[q]) = 2
          /\ queries[q][1].err = NoErr
          /\ queries[q][2].err = QueryError("bad response")
          /\ ret[q] = QueryError("bad response")

\* C5: when the admit query returned a result, the single controller has
\* returned nil; the override controller goes on to the override query and,
\* once that has returned Undefined or a result, has returned nil.
C5_DefinedAdmitAllows ==
    \A q \in Requests :
        (Len(queries[q]) >= 1 /\ queries[q][1].doc = admitDoc /\ queries[q][1].err = NoErr) =>
            /\ controller = "single" => pc[q] = "done" /\ ret[q] = NoErr
            /\ controller = "override" /\ Len(queries[q]) = 1 =>
                  pc[q] = "override" /\ ret[q] = Pending
            /\ (/\ controller = "override"
                /\ Len(queries[q]) = 2
                /\ (IsUndefined(queries[q][2].err) \/ queries[q][2].err = NoErr)) =>
                  pc[q] = "done" /\ ret[q] = NoErr

\* C5 witness: one override call was allowed on an Undefined override
\* query and another on an override query that returned a result.
C5_Witness ==
    /\ controller = "override"
    /\ \E q, r \in Requests :
          /\ Len(queries[q]) = 2 /\ Len(queries[r]) = 2
          /\ IsUndefined(queries[q][2].err) /\ ret[q] = NoErr
          /\ queries[r][2].err = NoErr /\ ret[r] = NoErr

\* The annotations the proposed object of call q had when Admit was called
\* (a nil map holds no key).
Existing(q) == IF object0[q].isNil THEN EmptyMap ELSE object0[q].ann

\* Call q got a result from its annotations query that decoded to at least
\* one entry.
GotAnnotations(q) ==
    /\ controller \in ModeB
    /\ pc[q] = "done"
    /\ Len(queries[q]) = 1
    /\ queries[q][1].err = NoErr
    /\ queries[q][1].result.t = "map"
    /\ DOMAIN queries[q][1].result.m # {}

\* The policy-supplied map of call q as strings: a string entry as it is, a
\* number as its JSON text.
Supplied(q) ==
    LET m == queries[q][1].result.m
    IN [k \in DOMAIN m |-> IF m[k].t = "num" THEN ToString(m[k].n) ELSE m[k].s]

\* C6: a Mode B call whose identity is on the ignore list (the configured
\* names of the opa controller, opaName for the federation controller) or
\* whose proposed object is absent has returned nil at once: it issued no
\* query and its object is as it was.
C6_SkipAllowsUnchanged ==
    \A q \in Requests :
        (/\ controller \in ModeB
         /\ pc[q] \notin {"idle", "entry"}
         /\ \/ attrs[q].user \in (IF controller = "federation" THEN {opaName} ELSE ignoreUserNames)
            \/ ~object0[q].present) =>
            /\ pc[q] = "done"
            /\ ret[q] = NoErr
            /\ queries[q] = <<>>
            /\ object[q] = object0[q]

\* C6 witness: the opa controller allowed an update by a configured ignored
\* name whose object is present and carries annotations.
C6_Witness ==
    /\ controller = "opa"
    /\ \E q \in Requests :
          /\ pc[q] = "done"
          /\ attrs[q].user \in ignoreUserNames
          /\ attrs[q].user # opaName
          /\ object0[q].present /\ ~object0[q].isNil
          /\ ret[q] = NoErr

\* C7: a Mode B call that issued its annotations query (not ignored, object
\* present) returned nil with the object as it was if the query was
\* Undefined, and a forbidden error carrying the query's error if the query
\* ended in an error.
C7_UndefinedAllowsErrorDenies ==
    \A q \in Requests :
        (controller \in ModeB /\ Len(queries[q]) >= 1) =>
            /\ pc[q] = "done"
            /\ ~(attrs[q].user \in (IF controller = "federation" THEN {opaName} ELSE ignoreUserNames))
            /\ object0[q].present
            /\ IsUndefined(queries[q][1].err) =>
                  ret[q] = NoErr /\ object[q] = object0[q]
            /\ queries[q][1].err.k = "error" =>
                  /\ ret[q].k = "forbidden"
                  /\ ret[q].cause = "error:" \o queries[q][1].err.cause
                  /\ object[q] = object0[q]

\* C7 witness: the federation controller got an Undefined annotations
\* document for an object with annotations and allowed it.
C7_Witness ==
    /\ controller = "federation"
    /\ \E q \in Requests :
          /\ Len(queries[q]) = 1
          /\ IsUndefined(queries[q][1].err)
          /\ object0[q].ann # EmptyMap
          /\ ret[q] = NoErr

\* C8: after applyAnnotations with existing annotations E (nil, empty or
\* not) and a non-empty policy-supplied map I, the annotations of an object
\* that has the field are I together with E restricted to the keys not in I.
C8_MergeIsIncomingThenExisting ==
    \A q \in Requests :
        (GotAnnotations(q) /\ object0[q].hasField) =>
            /\ ~object[q].isNil
            /\ DOMAIN object[q].ann = DOMAIN Supplied(q) \cup DOMAIN Existing(q)
            /\ \A k \in DOMAIN Supplied(q) : object[q].ann[k] = Supplied(q)[k]
            /\ \A k \in DOMAIN Existing(q) \ DOMAIN Supplied(q) :
                  object[q].ann[k] = Existing(q)[k]

\* C8 witness: E has k1 and k2, I has only k1 with another value (a number,
\* serialized), and the object ends with I's k1 and E's k2.
C8_Witness ==
    \E q \in Requests :
        /\ GotAnnotations(q)
        /\ object0[q].hasField
        /\ Existing(q) = [k \in Keys |-> "a"]
        /\ queries[q][1].result.m = [k \in {"k1"} |-> JNum(1)]
        /\ object[q].ann = [k \in Keys |-> IF k = "k1" THEN "1" ELSE "a"]

\* C9 as stated: for every key in both the existing annotations and the
\* policy-supplied set, the merged value is the existing value.
C9_ExistingWins ==
    \A q \in Requests :
        (GotAnnotations(q) /\ object0[q].hasField) =>
            \A k \in DOMAIN Existing(q) \cap DOMAIN Supplied(q) :
                object[q].ann[k] = Existing(q)[k]

\* C9 amended: for every key in both the existing annotations and the
\* policy-supplied set, the merged value is the policy-supplied value.
C9_SuppliedWins ==
    \A q \in Requests :
        (GotAnnotations(q) /\ object0[q].hasField) =>
            \A k \in DOMAIN Existing(q) \cap DOMAIN Supplied(q) :
                k \in DOMAIN object[q].ann /\ object[q].ann[k] = Supplied(q)[k]

\* C9 witness: a key is in both maps with different values.
C9_Witness ==
    \E q \in Requests :
        /\ GotAnnotations(q)
        /\ object0[q].hasField
        /\ \E k \in DOMAIN Existing(q) \cap DOMAIN Supplied(q) :
              Existing(q)[k] # Supplied(q)[k]

\* C10: in Mode B the proposed object differs from the one passed in only
\* after the annotations query returned a result that is a mapping with at
\* least one entry (and the call then returned nil); after a skip, an encode
\* error, Undefined, a query error, a result that is no mapping or an empty
\* mapping, the object is as it was.
C10_MutatedOnlyByAnnotations ==
    \A q \in Requests :
        /\ object[q] # object0[q] => GotAnnotations(q) /\ ret[q] = NoErr
        /\ (controller \in ModeB /\ pc[q] = "done" /\ ~GotAnnotations(q)) =>
              object[q] = object0[q]
        /\ (controller \in ModeB /\ ret[q] # NoErr) => object[q] = object0[q]

\* C10 witness: an object whose annotations map is nil was given
\* annotations, and so changed.
C10_Witness ==
    \E q \in Requests :
        /\ GotAnnotations(q)
        /\ object0[q].hasField /\ object0[q].isNil
        /\ object[q] # object0[q]
        /\ ret[q] = NoErr

\* C11: a Mode B call whose proposed object has no metadata/annotations
\* field and whose annotations query returned a mapping with entries has
\* returned nil and left the object as it was passed in.
C11_NoFieldNoChangeAllows ==
    \A q \in Requests :
        (GotAnnotations(q) /\ object0[q].present /\ ~object0[q].hasField) =>
            /\ object[q] = object0[q]
            /\ ret[q] = NoErr

\* C11 witness: applyAnnotations was reached with supplied annotations for
\* an object without the field, and the call was allowed.
C11_Witness ==
    \E q \in Requests :
        /\ GotAnnotations(q)
        /\ object0[q].present /\ ~object0[q].hasField
        /\ DOMAIN Supplied(q) = Keys
        /\ pc[q] = "done" /\ ret[q] = NoErr

\* The item patches issued for the message being handled, and the add
\* patches a replay of the items of msg owes: one for each item with a
\* uid, in order.
ItemPatches(t) == SelectSeq(patches[t], LAMBDA p : p.path # CollectionPath(t))
ReplayOf(t, msg) ==
    LET its == SelectSeq(msg.items, LAMBDA o : getUID(o) # "")
    IN [i \in 1..Len(its) |-> Patch(add, ItemPath(t, getUID(its[i])), its[i])]

\* start() has returned to some Admit call.
StartReturned == initialized \/ \E q \in Requests : pc[q] \in {"admit", "override", "done"}

\* C12: once start() has returned, the sync loop of every resource type it
\* launched has set its initialized flag; the counter of wg is the number
\* of launched sync loops that have not; and a sync loop sets the flag
\* (and calls wg.Done()) only at the end of a Resync event, the first it
\* received, with the add patch attempted for each of its items that has
\* a uid.
C12_StartWaitsForReplay ==
    /\ [](StartReturned => \A t \in ReflectedTypes : t \in running /\ loopInit[t])
    /\ [](wg = Cardinality({t \in running : ~loopInit[t]}))
    /\ [](\A t \in running :
             ~loopInit[t] =>
                 /\ Cardinality({k \in 1..Len(delivered[t]) :
                                    delivered[t][k].kind = "resync"}) <= 1
                 /\ \A k \in 1..Len(delivered[t]) :
                       delivered[t][k].kind = "resync" =>
                           spc[t] # "recv" /\ cur[t] = delivered[t][k])
    /\ [][\A t \in ResourceTypes :
            (loopInit'[t] /\ ~loopInit[t]) =>
                /\ cur[t].kind = "resync"
                /\ ItemPatches(t) = ReplayOf(t, cur[t])
                /\ wg' = wg - 1]_vars

\* C12 witness: start() has returned; a reflector needed a second list()
\* for its first Resync, and the item with a uid is in the mirror store.
C12_Witness ==
    /\ \E q \in Requests : pc[q] = "admit"
    /\ initialized
    /\ \A t \in ReflectedTypes : loopInit[t]
    /\ \E t \in ReflectedTypes : iter[t] = 2 /\ delivered[t][1].kind = "resync"
    /\ \E t \in ReflectedTypes : mirror[ItemPath(t, "u1")] = Obj("x", 1)

\* C13: whatever the interleaving of the Admit calls on the override
\* controller, start() is called at most once, it has been called and has
\* returned (initialized is set) before any call is at or past its admit
\* query, and only a call holding initLock is ever in start().
C13_StartOnceBeforeQueries ==
    controller = "override" =>
        /\ starts <= 1
        /\ initialized <=> starts = 1
        /\ \A q \in Requests :
              /\ (queries[q] # <<>> \/ pc[q] \in {"admit", "override"}) =>
                    initialized /\ starts = 1
              /\ pc[q] = "start" => initLock = q /\ ~initialized

\* C13 witness: the call that ran start() is at its override query, still
\* holding initLock, while the other call, which saw initialized unset,
\* waits for the lock.
C13_Witness ==
    /\ controller = "override"
    /\ starts = 1
    /\ \E q, r \in Requests :
          /\ q # r
          /\ initLock = q
          /\ pc[q] = "override"
          /\ Len(queries[q]) = 1
          /\ pc[r] = "lock"

\* What the mirror store should hold under the key of uid u of type t: the
\* remote object with that uid, or nothing.
RemoteObject(t, u) ==
    IF \E n \in Names : remote[t][n] > 0 /\ getUID(Obj(n, remote[t][n])) = u
    THEN LET n == CHOOSE n \in Names : remote[t][n] > 0 /\ getUID(Obj(n, remote[t][n])) = u
         IN Obj(n, remote[t][n])
    ELSE Absent

\* The mirror store holds exactly the remote objects of type t that have
\* a uid.
MirrorMatches(t) == \A u \in Uids : mirror[ItemPath(t, u)] = RemoteObject(t, u)

\* The reflector of type t and its sync loop have nothing left to do: the
\* watch is open and has decoded every notification, and every message has
\* been received and handled. If the collection stops changing here, the
\* mirror store stays as it is.
Settled(t) ==
    /\ rpc[t] = "watching"
    /\ wpos[t] = rv[t]
    /\ sending[t] = NoMsg
    /\ spc[t] = "recv"

\* C14: with list, watch and patch calls that succeed, whenever the
\* reflector and the sync loop of a resource type have caught up with its
\* remote collection, so that nothing more happens if the collection stops
\* changing, the mirror store holds exactly the objects of the collection:
\* every remote object under its key and no key of an object that no longer
\* exists remotely.
C14_SettledMirrorMatches ==
    \A t \in running : (~mayFail /\ Settled(t)) => MirrorMatches(t)

\* The sync loop of type t issues a Patch call in this step, and the call.
PatchIssued(t) == Len(patches'[t]) = Len(patches[t]) + 1
ThePatch(t) == patches'[t][Len(patches'[t])]

\* C15: no Patch call of a sync loop, from a Sync event or from the
\* Resync of a reconnect, carries for a key an object version older than
\* one a patch that succeeded has carried for that key; and the version
\* stored under a key is never replaced by an older one.
C15_MirrorNeverRegresses ==
    [][/\ \A t \in ResourceTypes :
             (PatchIssued(t) /\ ThePatch(t).hasValue /\ ThePatch(t).path # CollectionPath(t)) =>
                 ThePatch(t).value.ver >= newest[ThePatch(t).path]
       /\ \A t \in ResourceTypes, u \in Uids :
             (mirror[ItemPath(t, u)] # Absent /\ mirror'[ItemPath(t, u)] # Absent) =>
                 mirror'[ItemPath(t, u)].ver >= mirror[ItemPath(t, u)].ver]_vars

\* C15 witness: after a reconnect the Resync replayed an object at the
\* version a patch had already written for its key after a change.
C15_Witness ==
    \E t \in ResourceTypes :
        /\ iter[t] = 2
        /\ cur[t].kind = "resync" /\ cur[t].iter = 2
        /\ spc[t] = "recv"
        /\ Len(patches[t]) >= 1
        /\ patches[t][1].value.ver = 2
        /\ newest[patches[t][1].path] = 2
        /\ mirror[patches[t][1].path].ver = 2
        /\ Len(stream[t]) = 1 /\ stream[t][1].type = modified

\* The sync loop of type t has replayed every item of the Resync it is
\* handling.
Replayed(t) == spc[t] = "items" /\ idx[t] > Len(cur[t].items)

\* C16: when the sync loop has replayed a Resync event right after a
\* Resync event with the same items, with every patch of both succeeding,
\* the mirror store of the type is as the first replay left it.
C16_ResyncReplayIdempotent ==
    \A t \in running :
        (~mayFail /\ base[t].again /\ Replayed(t)) => MirrorOf(t) = base[t].store

\* C16 witness: a Resync with two items that have a uid and one that has
\* none was replayed a second time, with an add patch for each of the two.
C16_Witness ==
    \E t \in running :
        /\ ~mayFail
        /\ base[t].again
        /\ Replayed(t)
        /\ Len(cur[t].items) = 3
        /\ Len(patches[t]) = 2
        /\ \A u \in Uids : mirror[ItemPath(t, u)] # Absent

\* C17: every Patch call the sync loop of resource type t issues for the
\* message it handles targets "/"+t, or "/"+t+"/"+uid with uid the
\* metadata.uid of the object replayed (the item of the Resync whose value
\* the patch carries, or the object of the Sync); and it targets no path
\* of that shape of another resource type.
C17_PatchPaths ==
    \A t \in ResourceTypes :
        \A k \in 1..Len(patches[t]) :
            LET p == patches[t][k]
            IN /\ \/ /\ cur[t].kind = "resync"
                     /\ p.path = "/" \o t
                  \/ /\ cur[t].kind = "resync"
                     /\ \E i \in 1..Len(cur[t].items) :
                           /\ cur[t].items[i].metadata
                           /\ cur[t].items[i].uid # ""
                           /\ p.value = cur[t].items[i]
                           /\ p.path = "/" \o t \o "/" \o cur[t].items[i].uid
                  \/ /\ cur[t].kind = "sync"
                     /\ cur[t].object.metadata
                     /\ cur[t].object.uid # ""
                     /\ p.path = "/" \o t \o "/" \o cur[t].object.uid
               /\ \A t2 \in ResourceTypes \ {t} :
                     /\ p.path # "/" \o t2
                     /\ \A u \in Uids : p.path # "/" \o t2 \o "/" \o u

\* C17 witness: the sync loop of pods removed the object with uid u2 on
\* a Deleted event, at /pods/u2.
C17_Witness ==
    /\ cur["pods"].kind = "sync"
    /\ cur["pods"].type = deleted
    /\ Len(patches["pods"]) = 1
    /\ patches["pods"][1].path = "/pods/u2"
    /\ spc["pods"] = "recv"

\* C18: the Patch call issued for a Sync event is the only one for it and
\* has op add and the object as value for Added, op replace and the object
\* as value for Modified, op remove and no value for Deleted; a Sync event
\* of one of these kinds whose object has a uid gets its patch; every item
\* patch of a Resync has op add and the item as value; and no remove patch
\* carries a value while every add and replace patch carries one.
C18_PatchByChangeKind ==
    \A t \in ResourceTypes :
        /\ \A k \in 1..Len(patches[t]) :
              LET p == patches[t][k]
              IN /\ p.op = remove => ~p.hasValue
                 /\ p.op \in {add, replace} => p.hasValue /\ p.value # NoObj
                 /\ cur[t].kind = "sync" =>
                       /\ Len(patches[t]) = 1
                       /\ cur[t].type = added => p.op = "add" /\ p.value = cur[t].object
                       /\ cur[t].type = modified => p.op = "replace" /\ p.value = cur[t].object
                       /\ cur[t].type = deleted => p.op = "remove" /\ ~p.hasValue
                 /\ cur[t].kind = "resync" =>
                       /\ p.op = "add"
                       /\ p.path # CollectionPath(t) =>
                             \E i \in 1..Len(cur[t].items) : p.value = cur[t].items[i]
        /\ (/\ cur[t].kind = "sync"
            /\ spc[t] = "recv"
            /\ cur[t].type \in {added, modified, deleted}
            /\ getUID(cur[t].object) # "") => Len(patches[t]) = 1

\* C18 witness: a Modified event was patched as a replace with the new
\* object.
C18_Witness ==
    \E t \in ResourceTypes :
        /\ cur[t].kind = "sync"
        /\ cur[t].type = modified
        /\ spc[t] = "recv"
        /\ Len(patches[t]) = 1
        /\ patches[t][1].op = "replace"
        /\ patches[t][1].value.ver = 2

\* The create-collection patch of resource type t.
CreatePatch(t) == Patch(add, "/" \o t, EmptyCollection)

\* C19: a sync loop issues the create-collection patch only while it
\* handles a Resync with its initialized flag unset, as the first Patch
\* call for that Resync; the flag, once set, stays set; and when the flag
\* is set, at the end of the first Resync, that patch has been issued
\* for it exactly once, before the item patches. So it is issued once in
\* the whole run, and a later Resync issues item patches only.
C19_CollectionCreatedOnce ==
    /\ [][\A t \in ResourceTypes :
            /\ (PatchIssued(t) /\ ThePatch(t).path = CollectionPath(t)) =>
                  /\ ThePatch(t) = CreatePatch(t)
                  /\ cur[t].kind = "resync"
                  /\ ~loopInit[t]
                  /\ patches[t] = <<>>
            /\ loopInit[t] => loopInit'[t]
            /\ (loopInit'[t] /\ ~loopInit[t]) =>
                  /\ cur[t].kind = "resync"
                  /\ Len(patches[t]) >= 1
                  /\ patches[t][1] = CreatePatch(t)
                  /\ \A k \in 2..Len(patches[t]) : patches[t][k].path # CollectionPath(t)]_vars
    /\ [](\A t \in ResourceTypes :
             (cur[t].kind = "resync" /\ spc[t] = "items" /\ ~loopInit[t]) =>
                 Len(patches[t]) >= 1 /\ patches[t][1] = CreatePatch(t))

\* C19 witness: the collection exists, and the Resync of the second loop
\* iteration was replayed with an item patch and no create-collection
\* patch.
C19_Witness ==
    \E t \in ResourceTypes :
        /\ loopInit[t]
        /\ mirror[CollectionPath(t)] = EmptyCollection
        /\ cur[t].kind = "resync" /\ cur[t].iter = 2
        /\ spc[t] = "recv"
        /\ Len(patches[t]) >= 1
        /\ \A k \in 1..Len(patches[t]) : patches[t][k].path # CollectionPath(t)

\* The Resync being handled, cut down to the items the loop has been
\* through.
Passed(t) == [cur[t] EXCEPT !.items = SubSeq(cur[t].items, 1, idx[t] - 1)]

\* C20: while a sync loop replays a Resync, the item patches it has issued
\* are one add for each item with a uid it has been through, in order, and
\* none for an item without a uid, whether or not the Patch calls
\* succeeded; a turn of the item loop moves on to the next item whatever
\* the outcome of its Patch call; and the loop is never stuck: it has a
\* step to take for the message it handles and, when it handles none,
\* receives the message the reflector sends.
C20_ItemFailureIsLocal ==
    /\ [](\A t \in running :
             /\ spc[t] = "items" => ItemPatches(t) = ReplayOf(t, Passed(t))
             /\ Replayed(t) => ItemPatches(t) = ReplayOf(t, cur[t])
             /\ spc[t] = "collection" => ENABLED CreateCollection(t)
             /\ spc[t] = "items" => ENABLED (ReplayItem(t) \/ ResyncDone(t))
             /\ spc[t] = "sync" => ENABLED SyncObject(t)
             /\ (spc[t] = "recv" /\ sending[t] # NoMsg) => ENABLED Receive(t)
             /\ spc[t] \in {"recv", "collection", "items", "sync"})
    /\ [][\A t \in running :
            (spc[t] = "items" /\ idx[t] <= Len(cur[t].items) /\ idx'[t] # idx[t]) =>
                /\ idx'[t] = idx[t] + 1
                /\ spc'[t] = "items"
                /\ cur'[t] = cur[t]
                /\ getUID(cur[t].items[idx[t]]) = "" =>
                      patches'[t] = patches[t] /\ mirror' = mirror
                /\ getUID(cur[t].items[idx[t]]) # "" => PatchIssued(t)]_vars

\* C20 witness: of a Resync with three items the first Patch call failed,
\* the second succeeded and the third item, which has no uid, got none.
C20_Witness ==
    \E t \in running :
        /\ Replayed(t)
        /\ Len(cur[t].items) = 3
        /\ Len(ItemPatches(t)) = 2
        /\ mirror[ItemPath(t, "u1")] = Absent
        /\ mirror[ItemPath(t, "u2")] = Obj("y", 1)

\* C21: the policy client puts every response in exactly one of result,
\* Undefined and QueryError. POST variant: a result iff the status is 200 and
\* the body decodes, Undefined iff the status is 404, a QueryError otherwise.
\* GET variant: a result iff the status is 200 (and the body, which is
\* decoded first, is JSON), Undefined iff the status is 404 and the body is
\* a JSON object carrying the IsUndefined marker, a QueryError for any other
\* status, a 404 without the marker, a body that does not decode or a
\* connection failure.
C21_ResponseClassified ==
    response # NoResponse =>
        LET r == response.resp
            k == response.err.k
        IN /\ k \in {"nil", "undefined", "error"}
           /\ response.method \in {"GET", "POST"}
           /\ response.method = "POST" =>
                 /\ k = "nil" <=> (r.conn /\ r.status = 200
                                     /\ r.body \in {"undefinedMarker", "plainMap"})
                 /\ k = "undefined" <=> (r.conn /\ r.status = 404)
           /\ response.method = "GET" =>
                 /\ k = "nil" <=> (r.conn /\ r.status = 200 /\ r.body # "garbage")
                 /\ k = "undefined" <=> (r.conn /\ r.status = 404
                                           /\ r.body = "undefinedMarker")

\* A GET query was answered 404 with a JSON body that has no marker, which
\* is a QueryError.
C21_Witness ==
    /\ response.method = "GET"
    /\ response.resp.conn /\ response.resp.status = 404 /\ response.resp.body = "plainMap"
    /\ response.err = QueryError("bad response")

\* The error events a reflector has put on Rx in its current loop iteration.
ErrorEvents(t) == {k \in 1..Len(PutOnRx(t)) : PutOnRx(t)[k].kind = "error"}

\* C22: in every loop iteration of a reflector, a failed list() puts exactly
\* one error event on Rx, no Resync, calls no watch, and Start is back at
\* list() once the event has been received; after a successful list() at
\* most one watch is called, a watch that ended with end-of-stream has put
\* no error event on Rx and Start is at list(), and a watch that ended with
\* any other error has put exactly one error event on Rx, as the last
\* message of the iteration, and Start is at list() once it is received.
C22_FailuresRestartLoop ==
    \A t \in ResourceTypes :
        iter[t] > 0 =>
            IF listed[t].err
            THEN /\ PutOnRx(t) = <<ErrorMsg(iter[t])>>
                 /\ watches[t] = <<>>
                 /\ rpc[t] \in {"sendListErr", "list"}
                 /\ rpc[t] = "list" <=> sending[t] = NoMsg
            ELSE /\ Len(watches[t]) <= 1
                 /\ Cardinality(Resyncs(t)) = 1
                 /\ watches[t] = <<>> => ErrorEvents(t) = {}
                 /\ watches[t] # <<>> =>
                       /\ watches[t][1].end = "open" =>
                             /\ ErrorEvents(t) = {}
                             /\ rpc[t] \notin {"list", "sendWatchErr"}
                       /\ watches[t][1].end = "EOF" =>
                             /\ ErrorEvents(t) = {}
                             /\ rpc[t] = "list" /\ sending[t] = NoMsg
                       /\ watches[t][1].end = "error" =>
                             /\ ErrorEvents(t) = {Len(PutOnRx(t))}
                             /\ rpc[t] \in {"sendWatchErr", "list"}
                             /\ rpc[t] = "list" <=> sending[t] = NoMsg

\* A watch that had delivered a Sync event ended with an error other than
\* end-of-stream, and the error event has been received.
C22_Witness ==
    \E t \in ResourceTypes :
        /\ watches[t] # <<>> /\ watches[t][1].end = "error"
        /\ rpc[t] = "list"
        /\ \E k \in 1..Len(delivered[t]) : delivered[t][k].kind = "sync"

\* C27: every Patch call of the sync loop has an op in {add, replace,
\* remove}; a Sync event whose change kind is none of ADDED, MODIFIED,
\* DELETED leads to no Patch call with an empty or unknown op.
C27_PatchOpKnown ==
    \A t \in ResourceTypes :
        \A k \in 1..Len(patches[t]) : patches[t][k].op \in {add, replace, remove}

\* C24: every watch() call of a reflector is given the version that the
\* list() call of the same loop iteration returned, which succeeded and
\* whose Resync was received before the call; an iteration calls watch() at
\* most once, so the version of a list() serves one watch only; and the
\* open watch request asks for that version.
C24_WatchUsesListCursor ==
    \A t \in ResourceTypes :
        /\ Len(watches[t]) <= 1
        /\ \A k \in 1..Len(watches[t]) :
              /\ ~listed[t].err
              /\ watches[t][k].version = listed[t].version
              /\ delivered[t] # <<>>
              /\ delivered[t][1] = ResyncMsg(listed[t].items, iter[t])
        /\ rpc[t] \in {"watching", "sendSync"} =>
              /\ watches[t] = <<WatchCall(listed[t].version, "open")>>
              /\ wcursor[t] = listed[t].version

\* The watch of the second loop iteration is open with the version of the
\* second list(), the collection having changed since the reflector began.
C24_Witness ==
    \E t \in ResourceTypes :
        /\ iter[t] = 2
        /\ rpc[t] = "watching"
        /\ listed[t].version = 2
        /\ watches[t] = <<WatchCall(2, "open")>>

\* C23: the loop of a reflector does not stop: when list() has failed or a
\* watch has ended, with end-of-stream or with an error, in a loop iteration
\* that is not the last one followed, list() is called again, as long as the
\* sync loop goes on receiving and the calls return.
C23_ListAttemptedAgain ==
    \A i \in 1..(MaxIter - 1) :
        (iter[OneType] = i /\ rpc[OneType] \in {"sendListErr", "sendWatchErr", "list"})
            ~> (iter[OneType] = i + 1)

\* list() has been called a second time, after a watch that was open.
C23_Witness ==
    /\ iter[OneType] = 2
    /\ wcursor[OneType] # 0
    /\ watches[OneType] = <<>>

\* C26: no Admit call holds initLock while it is at its policy queries: the
\* lock is held for startup only, so a call that has reached its admit or
\* override query, or has issued one and not yet returned, does not hold it.
C26_NoLockDuringQueries ==
    \A q \in Requests :
        (pc[q] \in {"admit", "override"} \/ (queries[q] # <<>> /\ pc[q] # "done")) =>
            initLock # q

\* No list() call of the reflector has succeeded yet: its sync loop is not
\* initialized and no Resync is being sent or handled.
NeverListed(t) ==
    ~loopInit[t] /\ cur[t].kind # "resync" /\ sending[t].kind # "resync"

\* C25: if for every resource type a list() call succeeds at some time,
\* then start() returns and the first Admit call gets to its policy
\* queries, whatever error events came before the first Resync and whether
\* the patches of the first Resync succeed or fail: start() returns unless
\* every list() call followed of some type has failed. The barrier is
\* released once per resource type: the counter of wg is the number of
\* launched types whose sync loop is not yet initialized, and a sync loop
\* that is initialized stays so.
C25_StartReturns ==
    /\ <>(\/ pc[1] = "admit"
          \/ \E t \in ReflectedTypes :
                iter[t] = MaxIter /\ listed[t].err /\ NeverListed(t))
    /\ [](wg = Cardinality({t \in running : ~loopInit[t]}))
    /\ [][\A t \in ResourceTypes : loopInit[t] => loopInit'[t]]_vars

\* start() has returned although, for one resource type, the first Resync
\* came in the second loop iteration, after the error event of a failed
\* list(), and the patch creating the collection failed.
C25_Witness ==
    /\ pc[1] = "admit"
    /\ wg = 0
    /\ \E t \in ReflectedTypes :
          /\ cur[t].kind = "resync" /\ cur[t].iter = 2
          /\ spc[t] = "recv"
          /\ patches[t] # <<>> /\ patches[t][1].path = CollectionPath(t)
          /\ mirror[CollectionPath(t)] = Absent
          /\ loopInit[t]

=============================================================================
